---- MODULE Spec2Model ----
(***************************************************************************)
(* Model of warehouse/utils/wsgi.py: the ProxyFixer and VhmRootRemover     *)
(* WSGI middlewares and the _forwarded_value helper.                       *)
(*                                                                         *)
(* Python values are represented as follows.                               *)
(*   str   a sequence of characters, each character a one-letter string;   *)
(*         the character NonAscii stands for any code point above 127.     *)
(*   None  the value None (a tuple no str is equal to).                    *)
(*   dict  a function whose DOMAIN is the set of keys present.             *)
(***************************************************************************)
EXTENDS Integers, Sequences, FiniteSets, TLC

\* ------------------------------------------------------------------ bounds
\* longest forwarded-for string given to _forwarded_value on its own
MaxLen == 4
\* largest depth given to _forwarded_value on its own
MaxDepth == 3
\* largest num_proxies a ProxyFixer is constructed with
MaxProxies == 2

\* ------------------------------------------------------------ Python values
None == <<"<None>">>
Unset == <<"<unset>">>
NonAscii == "U+00E9"
Whitespace == {" "}

\* All strings over alphabet of length at most n.
Strings(alphabet, n) == UNION {[1..k -> alphabet] : k \in 0..n}

\* Truth value of a str or None in a Python condition: `if v:`.
Truthy(v) == v # None /\ v # <<>>

\* ------------------------------------------------------- str.split / strip
\* str.split(","): the list of the pieces between commas, left to right.
RECURSIVE split(_, _)
split(s, acc) ==
    IF s = <<>> THEN <<acc>>
    ELSE IF Head(s) = "," THEN <<acc>> \o split(Tail(s), <<>>)
    ELSE split(Tail(s), Append(acc, Head(s)))

RECURSIVE lstrip(_)
lstrip(s) ==
    IF s # <<>> /\ Head(s) \in Whitespace THEN lstrip(Tail(s)) ELSE s

RECURSIVE rstrip(_)
rstrip(s) ==
    IF s # <<>> /\ s[Len(s)] \in Whitespace
    THEN rstrip(SubSeq(s, 1, Len(s) - 1)) ELSE s

\* str.strip(): leading and trailing whitespace removed.
strip(s) == rstrip(lstrip(s))

\* (mutant) indexing from the front
IndexFromEndWrong(list, k) == list[k]

\* list[-k] for 1 <= k <= len(list): Python's indexing from the end.
IndexFromEnd(list, k) == list[Len(list) - k + 1]

\* _forwarded_value(values, num_proxies): falls off the end (None) when the
\* list is shorter than num_proxies.
_forwarded_value(values, num_proxies) ==
    LET vals == [i \in 1..Len(split(values, <<>>)) |->
                    strip(split(values, <<>>)[i])]
    IN IF Len(vals) >= num_proxies
       THEN IndexFromEnd(vals, num_proxies)
       ELSE None

\* ----------------------------------------------------------------- dicts
\* dict.get(key, default)
get(d, key, default) == IF key \in DOMAIN d THEN d[key] ELSE default

\* d[key] = value
setitem(d, key, value) ==
    [k \in DOMAIN d \cup {key} |-> IF k = key THEN value ELSE d[k]]

\* for key in keys: if key in d: del d[key]
delitems(d, keys) == [k \in DOMAIN d \ keys |-> d[k]]

\* --------------------------------------------------- hmac and hashlib
IsAscii(s) == \A i \in 1..Len(s) : s[i] # NonAscii

\* hmac.compare_digest(a, b) raises TypeError unless a and b are both str
\* made of ASCII characters only (bytes never occur in this program).
compare_digest_raises(a, b) ==
    \/ a = None
    \/ b = None
    \/ ~IsAscii(a)
    \/ ~IsAscii(b)

\* hmac.compare_digest(a, b) when it does not raise: equality.
compare_digest(a, b) == a = b

\* hashlib.sha256(s.encode("utf8")).hexdigest(): the digest is not computed;
\* it is a non-empty string determined by s and different for different s.
sha256_hexdigest(s) == <<"sha256(">> \o s \o <<")">>

\* ------------------------------------------------- ProxyFixer.__call__
\* The condition of the `if`: "True", "False", or "TypeError" when
\* evaluating it raises.  `and` does not evaluate compare_digest when the
\* token is absent from the request.
TrustCheck(self_token, request_token) ==
    IF request_token = None THEN "False"
    ELSE IF compare_digest_raises(self_token, request_token) THEN "TypeError"
    ELSE IF compare_digest(self_token, request_token) THEN "True"
    ELSE "False"

\* (mutant) the trusted branch falling back to X-Forwarded-Host
TrustedValuesFallback(env) ==
    [proto |-> get(env, "HTTP_WAREHOUSE_PROTO", <<>>),
     remote_addr |-> get(env, "HTTP_WAREHOUSE_IP", <<>>),
     remote_addr_hashed |-> get(env, "HTTP_WAREHOUSE_HASHED_IP", <<>>),
     host |-> get(env, "HTTP_WAREHOUSE_HOST",
                  get(env, "HTTP_X_FORWARDED_HOST", <<>>))]

\* The values computed in the trusted branch.
TrustedValues(env) ==
    [proto |-> get(env, "HTTP_WAREHOUSE_PROTO", <<>>),
     remote_addr |-> get(env, "HTTP_WAREHOUSE_IP", <<>>),
     remote_addr_hashed |-> get(env, "HTTP_WAREHOUSE_HASHED_IP", <<>>),
     host |-> get(env, "HTTP_WAREHOUSE_HOST", <<>>)]

\* (mutant) the else branch hashing the whole header, not the selected hop
UntrustedValuesHashHeader(env, n) ==
    LET addr == _forwarded_value(get(env, "HTTP_X_FORWARDED_FOR", <<>>), n)
    IN [proto |-> get(env, "HTTP_X_FORWARDED_PROTO", <<>>),
        remote_addr |-> addr,
        remote_addr_hashed |->
            IF Truthy(addr)
            THEN sha256_hexdigest(get(env, "HTTP_X_FORWARDED_FOR", <<>>))
            ELSE <<>>,
        host |-> get(env, "HTTP_X_FORWARDED_HOST", <<>>)]

\* The values computed in the else branch.
UntrustedValues(env, n) ==
    LET addr == _forwarded_value(get(env, "HTTP_X_FORWARDED_FOR", <<>>), n)
    IN [proto |-> get(env, "HTTP_X_FORWARDED_PROTO", <<>>),
        remote_addr |-> addr,
        remote_addr_hashed |->
            IF Truthy(addr) THEN sha256_hexdigest(addr) ELSE <<>>,
        host |-> get(env, "HTTP_X_FORWARDED_HOST", <<>>)]

\* (mutant) the write-back without its `if`
SetAlways(env, key, value) == setitem(env, key, value)

\* "Put the new header values into our environment."
SetIfTruthy(env, key, value) ==
    IF Truthy(value) THEN setitem(env, key, value) ELSE env

WriteBack(env, v) ==
    SetIfTruthy(
        SetIfTruthy(
            SetIfTruthy(
                SetIfTruthy(env, "REMOTE_ADDR", v.remote_addr),
                "REMOTE_ADDR_HASHED", v.remote_addr_hashed),
            "HTTP_HOST", v.host),
        "wsgi.url_scheme", v.proto)

\* (mutant) the cleanup loop without the header that is never read
RemovedHeadersNoPort ==
    {"HTTP_X_FORWARDED_PROTO", "HTTP_X_FORWARDED_FOR",
     "HTTP_X_FORWARDED_HOST",
     "HTTP_WAREHOUSE_TOKEN", "HTTP_WAREHOUSE_PROTO", "HTTP_WAREHOUSE_IP",
     "HTTP_WAREHOUSE_HASHED_IP", "HTTP_WAREHOUSE_HOST"}

\* The headers the cleanup loop removes.
RemovedHeaders ==
    {"HTTP_X_FORWARDED_PROTO", "HTTP_X_FORWARDED_FOR",
     "HTTP_X_FORWARDED_HOST", "HTTP_X_FORWARDED_PORT",
     "HTTP_WAREHOUSE_TOKEN", "HTTP_WAREHOUSE_PROTO", "HTTP_WAREHOUSE_IP",
     "HTTP_WAREHOUSE_HASHED_IP", "HTTP_WAREHOUSE_HOST"}

Cleanup(env) == delitems(env, RemovedHeaders)

\* (mutant) the call of self.app without `return`
ReturnsNone(app_result) == "None"

\* `return self.app(environ, start_response)`: what the caller gets back,
\* given what self.app returned.
ReturnValue(app_result) == app_result

\* ------------------------------------------------- VhmRootRemover.__call__
\* (mutant) the header tested under another spelling
VhmStripOtherKey(env) == delitems(env, {"HTTP_X_VHM_HOST"})

VhmStrip(env) == delitems(env, {"HTTP_X_VHM_ROOT"})

\* -------------------------------------------------------------- variables
VARIABLES
    chain,              \* the handlers, outermost first; each one's self.app
                        \* is the next, the last one's is the application
    token,              \* ProxyFixer.token
    num_proxies,        \* ProxyFixer.num_proxies
    environ,            \* the request's environ dict, shared by all handlers
    level,              \* position in chain of the handler running or about
                        \* to run; Len(chain) + 1 is the application
    pc,                 \* where ProxyFixer.__call__ is
    path,               \* the branch of its `if` taken: "trusted",
                        \* "untrusted", or "none" (not reached, or raised)
    vpc,                \* where VhmRootRemover.__call__ is
    request_token,      \* locals of ProxyFixer.__call__
    proto,
    remote_addr,
    remote_addr_hashed,
    host,
    exc,                \* the exception propagating out of the chain
    rets,               \* the values returned so far, the application's first
    entry,              \* environ as it was when ProxyFixer.__call__ began
    ventry,             \* environ as it was when VhmRootRemover.__call__ began
    app_calls,          \* how many times the application was called
    app_environ,        \* the environ the application was called with
    fv_values,          \* _forwarded_value: argument values
    fv_num_proxies,     \* _forwarded_value: argument num_proxies
    fv_result           \* _forwarded_value: the value returned, Unset before

fv_vars == <<fv_values, fv_num_proxies, fv_result>>
config == <<chain, token, num_proxies>>
locals == <<request_token, proto, remote_addr, remote_addr_hashed, host>>
ghosts == <<entry, ventry>>
app_vars == <<app_calls, app_environ>>
vars == <<config, environ, level, pc, path, vpc, locals, exc, rets, ghosts,
          app_vars, fv_vars>>

EmptyDict == [k \in {} |-> <<>>]
Absent == <<"<absent>">>

\* The dict holding the keys of f whose value is not Absent.
Dict(f) == [k \in {x \in DOMAIN f : f[x] # Absent} |-> f[k]]

\* What the wrapped application may return.
AppResults == {"response-1", "response-2"}

\* --------------------------------------------------------------- actions
\* ProxyFixer.__call__, lines 38-39: read the token, evaluate the condition.
ProxyFixer_Enter ==
    /\ level \in 1..Len(chain)
    /\ chain[level] = "ProxyFixer"
    /\ pc = "idle"
    /\ exc = "none"
    /\ LET rt == get(environ, "HTTP_WAREHOUSE_TOKEN", None)
           c == TrustCheck(token, rt)
       IN /\ request_token' = rt
          /\ pc' = CASE c = "TypeError" -> "raised"
                     [] c = "True" -> "trusted"
                     [] OTHER -> "untrusted"
          /\ path' = CASE c = "TypeError" -> "none"
                       [] c = "True" -> "trusted"
                       [] OTHER -> "untrusted"
          /\ exc' = IF c = "TypeError" THEN "TypeError" ELSE "none"
    /\ entry' = environ
    /\ UNCHANGED <<config, environ, level, vpc, proto, remote_addr,
                   remote_addr_hashed, host, rets, ventry, app_vars, fv_vars>>

AssignValues(v) ==
    /\ proto' = v.proto
    /\ remote_addr' = v.remote_addr
    /\ remote_addr_hashed' = v.remote_addr_hashed
    /\ host' = v.host

\* lines 41-44
ProxyFixer_Trusted ==
    /\ pc = "trusted"
    /\ AssignValues(TrustedValues(environ))
    /\ pc' = "write"
    /\ UNCHANGED <<config, environ, level, path, vpc, request_token, exc, rets,
                   ghosts, app_vars, fv_vars>>

\* lines 50-59
ProxyFixer_Untrusted ==
    /\ pc = "untrusted"
    /\ AssignValues(UntrustedValues(environ, num_proxies))
    /\ pc' = "write"
    /\ UNCHANGED <<config, environ, level, path, vpc, request_token, exc, rets,
                   ghosts, app_vars, fv_vars>>

\* lines 62-69
ProxyFixer_WriteBack ==
    /\ pc = "write"
    /\ environ' = WriteBack(environ,
                            [proto |-> proto, remote_addr |-> remote_addr,
                             remote_addr_hashed |-> remote_addr_hashed,
                             host |-> host])
    /\ pc' = "cleanup"
    /\ UNCHANGED <<config, level, path, vpc, locals, exc, rets, ghosts, app_vars,
                   fv_vars>>

\* lines 72-84
ProxyFixer_Cleanup ==
    /\ pc = "cleanup"
    /\ environ' = Cleanup(environ)
    /\ pc' = "dispatch"
    /\ UNCHANGED <<config, level, path, vpc, locals, exc, rets, ghosts, app_vars,
                   fv_vars>>

\* line 87: the call of self.app
ProxyFixer_Dispatch ==
    /\ pc = "dispatch"
    /\ level' = level + 1
    /\ pc' = "called"
    /\ UNCHANGED <<config, environ, path, vpc, locals, exc, rets, ghosts, app_vars,
                   fv_vars>>

\* line 87: self.app has returned; return its value
ProxyFixer_Return ==
    /\ pc = "called"
    /\ level \in 1..Len(chain)
    /\ chain[level] = "ProxyFixer"
    /\ rets # <<>>
    /\ rets' = Append(rets, ReturnValue(rets[Len(rets)]))
    /\ level' = level - 1
    /\ pc' = "done"
    /\ UNCHANGED <<config, environ, path, vpc, locals, exc, ghosts, app_vars,
                   fv_vars>>

\* VhmRootRemover.__call__, lines 96-99: strip the header, call self.app
VhmRootRemover_Call ==
    /\ level \in 1..Len(chain)
    /\ chain[level] = "VhmRootRemover"
    /\ vpc = "idle"
    /\ exc = "none"
    /\ ventry' = environ
    /\ environ' = VhmStrip(environ)
    /\ level' = level + 1
    /\ vpc' = "called"
    /\ UNCHANGED <<config, pc, path, locals, exc, rets, entry, app_vars, fv_vars>>

\* line 99: self.app has returned; return its value
VhmRootRemover_Return ==
    /\ vpc = "called"
    /\ level \in 1..Len(chain)
    /\ chain[level] = "VhmRootRemover"
    /\ rets # <<>>
    /\ rets' = Append(rets, ReturnValue(rets[Len(rets)]))
    /\ level' = level - 1
    /\ vpc' = "done"
    /\ UNCHANGED <<config, environ, pc, path, locals, exc, ghosts, app_vars,
                   fv_vars>>

\* The wrapped application: called with environ, returns some response.
App ==
    /\ level = Len(chain) + 1
    /\ rets = <<>>
    /\ exc = "none"
    /\ \E r \in AppResults : rets' = <<r>>
    /\ app_calls' = app_calls + 1
    /\ app_environ' = environ
    /\ level' = level - 1
    /\ UNCHANGED <<config, environ, pc, path, vpc, locals, exc, ghosts, fv_vars>>

\* ------------------------------------------------------------ initial states
\* The state of one call before the outermost handler is entered.
InitCall ==
    /\ level = 1
    /\ pc = "idle"
    /\ path = "none"
    /\ vpc = "idle"
    /\ request_token = Unset
    /\ proto = Unset
    /\ remote_addr = Unset
    /\ remote_addr_hashed = Unset
    /\ host = Unset
    /\ exc = "none"
    /\ rets = <<>>
    /\ entry = EmptyDict
    /\ ventry = EmptyDict
    /\ app_calls = 0
    /\ app_environ = EmptyDict

NoFV ==
    /\ fv_values = <<>>
    /\ fv_num_proxies = 1
    /\ fv_result = Unset

\* Tokens a ProxyFixer is constructed with: None, "", "a", and a non-ASCII one.
ConfiguredTokens == {None, <<>>, <<"a">>, <<NonAscii>>}
\* Tokens a request presents.
PresentedTokens == {Absent, <<>>, <<"a">>, <<"b">>, <<NonAscii>>}
\* X-Forwarded-For values: "", "1", "1, 2", "1, ", "1,2,3"
XffValues ==
    {Absent, <<>>, <<"1">>, <<"1", ",", " ", "2">>, <<"1", ",", " ">>,
     <<"1", ",", "2", ",", "3">>}

\* ProxyFixer alone in front of the application.
Init ==
    /\ InitCall
    /\ NoFV
    /\ chain = <<"ProxyFixer">>
    /\ token \in ConfiguredTokens
    /\ num_proxies \in 1..MaxProxies
    /\ \E tok \in PresentedTokens, xff \in XffValues,
          wip \in {Absent, <<>>, <<"9">>}, whip \in {Absent, <<"h">>},
          wproto \in {Absent, <<"s">>}, whost \in {Absent, <<"w">>},
          xproto \in {Absent, <<"p">>}, xhost \in {Absent, <<>>, <<"x">>},
          xport \in {Absent, <<"8">>}, old \in {Absent, <<"o">>} :
        environ = Dict(
            [k \in {"PATH_INFO"} |-> <<"/">>]
            @@ [k \in {"REMOTE_ADDR", "REMOTE_ADDR_HASHED", "HTTP_HOST",
                       "wsgi.url_scheme"} |-> old]
            @@ ("HTTP_WAREHOUSE_TOKEN" :> tok)
            @@ ("HTTP_WAREHOUSE_IP" :> wip)
            @@ ("HTTP_WAREHOUSE_HASHED_IP" :> whip)
            @@ ("HTTP_WAREHOUSE_PROTO" :> wproto)
            @@ ("HTTP_WAREHOUSE_HOST" :> whost)
            @@ ("HTTP_X_FORWARDED_FOR" :> xff)
            @@ ("HTTP_X_FORWARDED_PROTO" :> xproto)
            @@ ("HTTP_X_FORWARDED_HOST" :> xhost)
            @@ ("HTTP_X_FORWARDED_PORT" :> xport))

Next ==
    \/ ProxyFixer_Enter
    \/ ProxyFixer_Trusted
    \/ ProxyFixer_Untrusted
    \/ ProxyFixer_WriteBack
    \/ ProxyFixer_Cleanup
    \/ ProxyFixer_Dispatch
    \/ ProxyFixer_Return
    \/ App

Spec == Init /\ [][Next]_vars

\* ProxyFixer and VhmRootRemover chained in either order, and
\* VhmRootRemover alone, in front of the application.
InitChain ==
    /\ InitCall
    /\ NoFV
    /\ chain \in {<<"VhmRootRemover", "ProxyFixer">>,
                  <<"ProxyFixer", "VhmRootRemover">>,
                  <<"VhmRootRemover">>}
    /\ token = <<"a">>
    /\ num_proxies = 1
    /\ \E tok \in PresentedTokens, vhm \in {Absent, <<"v">>},
          xff \in {Absent, <<"1">>}, wip \in {Absent, <<"9">>},
          old \in {Absent, <<"o">>} :
        environ = Dict(
            [k \in {"PATH_INFO"} |-> <<"/">>]
            @@ [k \in {"REMOTE_ADDR", "REMOTE_ADDR_HASHED"} |-> old]
            @@ ("HTTP_X_VHM_ROOT" :> vhm)
            @@ ("HTTP_WAREHOUSE_TOKEN" :> tok)
            @@ ("HTTP_WAREHOUSE_IP" :> wip)
            @@ ("HTTP_X_FORWARDED_FOR" :> xff))

NextChain ==
    \/ Next
    \/ VhmRootRemover_Call
    \/ VhmRootRemover_Return

SpecChain == InitChain /\ [][NextChain]_vars

\* -------------------------------------------- _forwarded_value on its own
FvAlphabet == {"1", "2", ",", " "}

InitFV ==
    /\ fv_values \in Strings(FvAlphabet, MaxLen)
    /\ fv_num_proxies \in 1..MaxDepth
    /\ fv_result = Unset
    /\ InitCall
    /\ chain = <<>>
    /\ token = None
    /\ num_proxies = 1
    /\ environ = EmptyDict

CallForwardedValue ==
    /\ fv_result = Unset
    /\ fv_result' = _forwarded_value(fv_values, fv_num_proxies)
    /\ UNCHANGED <<config, environ, level, pc, path, vpc, locals, exc, rets,
                   ghosts, app_vars, fv_values, fv_num_proxies>>

NextFV == CallForwardedValue

SpecFV == InitFV /\ [][NextFV]_vars

\* ------------------------------------------------------------------ claims
CountCommas(s) == Cardinality({i \in 1..Len(s) : s[i] = ","})

\* t is s without its leading and trailing whitespace: s is whitespace, t, and
\* whitespace again, and t neither starts nor ends with whitespace.
IsTrimOf(t, s) ==
    \E i \in 0..Len(s) :
        /\ i + Len(t) <= Len(s)
        /\ t = SubSeq(s, i + 1, i + Len(t))
        /\ \A j \in 1..Len(s) :
              (j <= i \/ j > i + Len(t)) => s[j] \in Whitespace
        /\ t # <<>> => (t[1] \notin Whitespace /\ t[Len(t)] \notin Whitespace)

\* hop is the d-th hop of f counted from the end: a maximal comma-free piece
\* of f, trimmed, with exactly d - 1 commas after it.
IsHopFromEnd(hop, f, d) ==
    \E i \in 0..Len(f), j \in 0..Len(f) :
        /\ i <= j
        /\ i = 0 \/ f[i] = ","
        /\ j = Len(f) \/ f[j + 1] = ","
        /\ CountCommas(SubSeq(f, i + 1, j)) = 0
        /\ CountCommas(SubSeq(f, j + 1, Len(f))) = d - 1
        /\ IsTrimOf(hop, SubSeq(f, i + 1, j))

\* C3: _forwarded_value(F, D) is the D-th hop from the end of F split on
\* commas with each hop trimmed (hops[len(hops) - D]) when F has at least D
\* hops, and None when it has fewer; "" gives "" for D = 1 and None for D > 1.
C3_ForwardedValueSelectsHop ==
    fv_result # Unset =>
        LET hops == CountCommas(fv_values) + 1
        IN /\ hops >= fv_num_proxies =>
                /\ fv_result # None
                /\ IsHopFromEnd(fv_result, fv_values, fv_num_proxies)
           /\ hops < fv_num_proxies => fv_result = None
           /\ fv_values = <<>> =>
                fv_result = (IF fv_num_proxies = 1 THEN <<>> ELSE None)

\* "1 ,2" with depth 2 gives "1"
C3_Witness ==
    /\ fv_values = <<"1", " ", ",", "2">>
    /\ fv_num_proxies = 2
    /\ fv_result = <<"1">>

\* The program points of ProxyFixer.__call__ after the write-back, and after
\* the cleanup.
Written == pc \in {"cleanup", "dispatch", "called", "done"}
Cleaned == pc \in {"dispatch", "called", "done"}

TrustedKeys ==
    {"HTTP_WAREHOUSE_PROTO", "HTTP_WAREHOUSE_IP", "HTTP_WAREHOUSE_HASHED_IP",
     "HTTP_WAREHOUSE_HOST"}
ForwardingKeys ==
    {"HTTP_X_FORWARDED_PROTO", "HTTP_X_FORWARDED_FOR",
     "HTTP_X_FORWARDED_HOST", "HTTP_X_FORWARDED_PORT"}

\* key holds in `after` what it held in `before`, or is absent from both.
KeyKept(before, after, key) ==
    /\ key \in DOMAIN after <=> key \in DOMAIN before
    /\ key \in DOMAIN before => after[key] = before[key]

\* The value of key in the context on entry, "" when missing.
OnEntry(key) == IF key \in DOMAIN entry THEN entry[key] ELSE <<>>

\* C1: for every configured token T (a string), the trusted path is taken iff
\* HTTP_WAREHOUSE_TOKEN is present on entry and equal to T, and the untrusted
\* path is taken in every other case.
C1_TrustedIffTokenEqual ==
    (token # None /\ pc # "idle") =>
        IF "HTTP_WAREHOUSE_TOKEN" \in DOMAIN entry
           /\ entry["HTTP_WAREHOUSE_TOKEN"] = token
        THEN path = "trusted"
        ELSE path = "untrusted"

\* C2: the context handed to the wrapped handler holds none of the four
\* trusted-path keys and none of the four forwarding keys.
C2_RawKeysRemoved ==
    app_calls > 0 =>
        DOMAIN app_environ \cap (TrustedKeys \cup ForwardingKeys) = {}

\* the handler was called for a request that carried all eight keys
C2_Witness ==
    /\ app_calls > 0
    /\ TrustedKeys \cup ForwardingKeys \subseteq DOMAIN entry
    /\ path = "untrusted"

\* The write-back rule for one canonical key and its computed value.
WrittenOnlyIfNonEmpty(key, value) ==
    IF value # None /\ value # <<>>
    THEN key \in DOMAIN environ /\ environ[key] = value
    ELSE KeyKept(entry, environ, key)

\* C4: after the write-back each canonical key holds its computed value when
\* that value is non-empty, and otherwise what it held on entry (absent if it
\* was absent); a call that raises has written nothing.
C4_WriteBackOnlyNonEmpty ==
    /\ Written =>
        /\ WrittenOnlyIfNonEmpty("REMOTE_ADDR", remote_addr)
        /\ WrittenOnlyIfNonEmpty("REMOTE_ADDR_HASHED", remote_addr_hashed)
        /\ WrittenOnlyIfNonEmpty("HTTP_HOST", host)
        /\ WrittenOnlyIfNonEmpty("wsgi.url_scheme", proto)
    /\ pc = "raised" => environ = entry

\* no address computed, a host computed: the old address stays, the host is
\* overwritten
C4_Witness ==
    /\ pc = "done"
    /\ remote_addr = None
    /\ get(entry, "REMOTE_ADDR", Absent) = <<"o">>
    /\ get(environ, "REMOTE_ADDR", Absent) = <<"o">>
    /\ host = <<"x">>
    /\ get(entry, "HTTP_HOST", Absent) = <<"o">>
    /\ get(environ, "HTTP_HOST", Absent) = <<"x">>

\* C5: ProxyFixer.__call__ raises no exception, whatever the request context
\* and the configured token.
C5_NeverRaises == exc = "none"

\* C6: with no token configured (None or "") every request is processed on
\* the untrusted path.
C6_NoTokenNeverTrusted ==
    (token \in {None, <<>>} /\ pc = "done") => path = "untrusted"

\* The contexts that differ from env at most in the HTTP_X_FORWARDED_* keys.
ForwardingVariants(env) ==
    {Dict(("HTTP_X_FORWARDED_FOR" :> xff)
          @@ ("HTTP_X_FORWARDED_PROTO" :> xproto)
          @@ ("HTTP_X_FORWARDED_HOST" :> xhost)
          @@ ("HTTP_X_FORWARDED_PORT" :> xport)
          @@ env) :
        xff \in XffValues, xproto \in {Absent, <<"p">>},
        xhost \in {Absent, <<"x">>}, xport \in {Absent, <<"8">>}}

\* C7: on the trusted path the computed values are the HTTP_WAREHOUSE_* values
\* of the context on entry, "" for a missing key, the hashed address included;
\* and a trusted request that differs only in its HTTP_X_FORWARDED_* keys
\* leaves the same context.
C7_TrustedValuesVerbatim ==
    path = "trusted" =>
        /\ pc \in {"write", "cleanup", "dispatch", "called", "done"} =>
            /\ proto = OnEntry("HTTP_WAREHOUSE_PROTO")
            /\ remote_addr = OnEntry("HTTP_WAREHOUSE_IP")
            /\ remote_addr_hashed = OnEntry("HTTP_WAREHOUSE_HASHED_IP")
            /\ host = OnEntry("HTTP_WAREHOUSE_HOST")
        /\ Cleaned =>
            \A twin \in ForwardingVariants(entry) :
                /\ TrustCheck(token, get(twin, "HTTP_WAREHOUSE_TOKEN", None))
                     = "True"
                /\ Cleanup(WriteBack(twin, TrustedValues(twin))) = environ

\* a trusted request with forwarding keys, whose hashed address is the one
\* presented and not the digest of the address
C7_Witness ==
    /\ path = "trusted"
    /\ pc = "done"
    /\ ForwardingKeys \subseteq DOMAIN entry
    /\ entry["HTTP_X_FORWARDED_FOR"] = <<"1">>
    /\ entry["HTTP_X_FORWARDED_HOST"] = <<"x">>
    /\ "HTTP_WAREHOUSE_HOST" \notin DOMAIN entry
    /\ get(environ, "REMOTE_ADDR", Absent) = <<"9">>
    /\ get(environ, "REMOTE_ADDR_HASHED", Absent) = <<"h">>

\* C8: on the untrusted path with depth D, when the hop selected from
\* HTTP_X_FORWARDED_FOR is non-empty REMOTE_ADDR is that hop and
\* REMOTE_ADDR_HASHED its SHA-256 hex digest; when it is None or empty both
\* keys stay as on entry; HTTP_HOST and wsgi.url_scheme are set from
\* HTTP_X_FORWARDED_HOST and HTTP_X_FORWARDED_PROTO either way.
C8_UntrustedAddressAndHash ==
    (path = "untrusted" /\ Written) =>
        LET addr == _forwarded_value(OnEntry("HTTP_X_FORWARDED_FOR"),
                                     num_proxies)
        IN /\ IF addr # None /\ addr # <<>>
              THEN /\ environ["REMOTE_ADDR"] = addr
                   /\ environ["REMOTE_ADDR_HASHED"] = sha256_hexdigest(addr)
              ELSE /\ KeyKept(entry, environ, "REMOTE_ADDR")
                   /\ KeyKept(entry, environ, "REMOTE_ADDR_HASHED")
                   /\ remote_addr_hashed = <<>>
           /\ IF OnEntry("HTTP_X_FORWARDED_HOST") # <<>>
              THEN environ["HTTP_HOST"] = entry["HTTP_X_FORWARDED_HOST"]
              ELSE KeyKept(entry, environ, "HTTP_HOST")
           /\ IF OnEntry("HTTP_X_FORWARDED_PROTO") # <<>>
              THEN environ["wsgi.url_scheme"] = entry["HTTP_X_FORWARDED_PROTO"]
              ELSE KeyKept(entry, environ, "wsgi.url_scheme")
           /\ (OnEntry("HTTP_X_FORWARDED_FOR") = <<"1", ",", " ", "2">>
               /\ num_proxies = 1) =>
                /\ environ["REMOTE_ADDR"] = <<"2">>
                /\ environ["REMOTE_ADDR_HASHED"] = sha256_hexdigest(<<"2">>)

\* "1, 2" with depth 2: the address is "1", hashed
C8_Witness ==
    /\ path = "untrusted"
    /\ pc = "done"
    /\ get(entry, "HTTP_X_FORWARDED_FOR", Absent) = <<"1", ",", " ", "2">>
    /\ num_proxies = 2
    /\ get(environ, "REMOTE_ADDR", Absent) = <<"1">>
    /\ get(environ, "REMOTE_ADDR_HASHED", Absent) = sha256_hexdigest(<<"1">>)

\* The values the branch taken computes from the context env.
ValuesOf(env) ==
    IF path = "trusted" THEN TrustedValues(env)
    ELSE UntrustedValues(env, num_proxies)

JustStripped ==
    /\ vpc = "called"
    /\ rets = <<>>
    /\ exc = "none"
    /\ \E i \in 1..Len(chain) :
          chain[i] = "VhmRootRemover" /\ level = i + 1
    /\ IF level <= Len(chain) THEN pc = "idle" ELSE app_calls = 0

\* C10: VhmRootRemover.__call__ removes HTTP_X_VHM_ROOT and leaves every other
\* key and value as it was, then calls its handler; in a chain with
\* ProxyFixer in either order the application never sees the key.
C10_VhmRootRemoved ==
    /\ JustStripped =>
        /\ DOMAIN environ = DOMAIN ventry \ {"HTTP_X_VHM_ROOT"}
        /\ \A k \in DOMAIN environ : environ[k] = ventry[k]
    /\ vpc = "done" => app_calls = 1
    /\ (app_calls > 0 /\ vpc # "idle") =>
        "HTTP_X_VHM_ROOT" \notin DOMAIN app_environ

\* ProxyFixer outermost, trusted path, the legacy key present on entry
C10_Witness ==
    /\ chain = <<"ProxyFixer", "VhmRootRemover">>
    /\ path = "trusted"
    /\ vpc = "done"
    /\ "HTTP_X_VHM_ROOT" \in DOMAIN ventry
    /\ "HTTP_X_VHM_ROOT" \notin DOMAIN app_environ

====
